---- MODULE Spec2Model ----
(***************************************************************************)
(* Timeline alignment and resynthesis engine of auto-dubbing.              *)
(*                                                                         *)
(* The module models the stages that carry algorithmic content:            *)
(*   align_speaker_labels  (transcription.py)  whisper x diarization       *)
(*   merge_segments        (transcription.py)  same-speaker coalescing     *)
(*   merge_transcripts     (fix_transcripts.py) the batch variant          *)
(*   time_stretch_vc       (tts.py)            clamped duration fitting    *)
(*   time_stretch          (time_stretch.py)   the first-generation fitter *)
(*   combine_audio         (mixing.py)         overlay onto the background *)
(*                                                                         *)
(* and, in front of them, transcribe with extend_short_segments.           *)
(*                                                                         *)
(* Times are integers counting milliseconds: a JSON time of s seconds is   *)
(* the integer 1000*s, and the arithmetic on them is exact.  In this       *)
(* arithmetic int(x * 1000) is the value itself and                        *)
(* int((end - start) * 1000) is end - start; the binary floating point of  *)
(* the code can put either one millisecond lower (int(2.01 * 1000) is      *)
(* 2009), which the model does not follow.  Texts are sequences of         *)
(* one-character strings so that rstrip/lstrip/+ can be computed.  A JSON  *)
(* file is a variable holding its content plus membership of its name in   *)
(* `written`; a folder of clips is a function from the clip to its length. *)
(***************************************************************************)
EXTENDS Integers, Sequences, FiniteSets, TLC

\* ------------------------------------------------------------------ bounds
MaxSegs == 2      \* longest whisper / diarization list drawn by Init
MaxSegTime == 2   \* whisper / diarization times are drawn from 0..MaxSegTime
MaxUtts == 3      \* longest transcript drawn by Init
MaxTime == 3      \* transcript times are drawn from 0..MaxTime
MaxRuns == 3      \* how many times a driver is started

Speakers == {"A", "B"}
Letters  == <<"a", "b", "c", "d", "e", "f">>
UpperLetters == <<"A", "B", "C", "D", "E", "F">>
None     == "<None>"

Max(a, b) == IF a >= b THEN a ELSE b
Min(a, b) == IF a <= b THEN a ELSE b

\* The intervals [s, e) with 0 <= s < e <= n.
Intervals(n) == {iv \in (0..n) \X (0..n) : iv[1] < iv[2]}

\* All sequences over S of length 0..n.
SeqsUpTo(S, n) == UNION {[1..k -> S] : k \in 0..n}

\* The text of the i-th drawn segment: one distinct word per position.
Word(i) == <<Letters[i]>>

\* str.rstrip() / str.lstrip() on a sequence of characters
Whitespace == {" "}

RECURSIVE RStrip(_)
RStrip(s) ==
  IF s = <<>> THEN s
  ELSE IF s[Len(s)] \in Whitespace THEN RStrip(SubSeq(s, 1, Len(s) - 1)) ELSE s

RECURSIVE LStrip(_)
LStrip(s) ==
  IF s = <<>> THEN s
  ELSE IF s[1] \in Whitespace THEN LStrip(Tail(s)) ELSE s

VARIABLES
  pc,                    \* the stage the run is at
  written,               \* names of the files present on disk
  result_segments,       \* transcribe: result.segments of the recogniser
  whisper_segments,      \* whisper.json
  diarization_segments,  \* diarization.json
  w_index,               \* align_speaker_labels: whisper segments consumed
  aligned,               \* align_speaker_labels: aligned
  discarded,             \* align_speaker_labels: discarded
  transcript,            \* transcript.json
  merger,                \* which Merger runs: merge_segments | merge_transcripts
  max_gap,               \* the Merger's gap threshold
  segments,              \* Merger: the loaded list
  m_index,               \* Merger: elements of segments consumed
  prev,                  \* Merger: the accumulator
  merged_segments,       \* Merger: merged_segments
  transcript_con,        \* transcript_con.json
  fitter,                \* which Fitter runs: time_stretch_vc | time_stretch
  tts_vc,                \* tts_vc/: clip key -> length in ms
  tts_vc_stretched,      \* tts_vc_stretched/: clip key -> length in ms
  f_index,               \* Fitter: utterances consumed
  stretch_calls,         \* Fitter: the calls of stretch_audio, in order
  utterance_data,        \* time_stretch: utterance_data
  durations,             \* time_stretch: durations
  speaker_dict,          \* time_stretch: speaker_dict
  durations_stretched,   \* time_stretch: durations_stretched
  background,            \* length in ms of the background track
  final_audio,           \* combine_audio: final_audio
  speaker_counts,        \* combine_audio: speaker_counts
  c_index,               \* combine_audio: utterances consumed
  final_mix,             \* final_mix.wav
  translating,           \* translate: the loaded transcript
  tl_index,              \* translate: utterances consumed
  attempt,               \* translate: attempt of the retry loop
  delay,                 \* translate: delay, in seconds
  translate_log,         \* translate: the calls of the translator, in order
  tts_index,             \* tts: utterances consumed
  speaker_tts,           \* tts/: clip key -> length in ms
  pipeline,              \* which driver runs: test_pipeline | re_run
  run_no,                \* how many times the driver has been started
  stage,                 \* the stage the driver is at
  artifacts,             \* stage outputs on disk: name -> complete | partial
  executed,              \* stages called in this run
  skipped,               \* stages passed over in this run
  durations_bound,       \* test_pipeline: the local durations is bound
  history,               \* the earlier runs, in order
  vocals,                \* length in ms of the vocals track
  utterances,            \* utterances/: clip key -> the stretch cut
  slice_counts,          \* split_audio_by_utterance: speaker_counts
  s_index,               \* split_audio_by_utterance: utterances consumed
  reference_window,      \* build_all_reference_audios: reference_window
  references,            \* references/: clip key -> the clips concatenated
  r_done,                \* build_all_reference_audios: files gone through
  converted,             \* tts_vc/ by content: clip key -> the clips converted
  vc_done,               \* process_all_voice_conversions: files gone through
  seed_vc,               \* the converter of this run: "ok" | "flaky"
  trim_runs              \* how many times trim_vc_start has run

asrVars == <<result_segments>>
langVars == <<translating, tl_index, attempt, delay, translate_log, tts_index,
              speaker_tts>>
runVars == <<pipeline, run_no, stage, artifacts, executed, skipped, durations_bound,
             history>>
sliceVars == <<vocals, utterances, slice_counts, s_index, reference_window,
               references, r_done>>
vcVars == <<converted, vc_done, seed_vc, trim_runs>>
stageVars == <<langVars, runVars, sliceVars, vcVars>>
fitVars == <<fitter, tts_vc, tts_vc_stretched, f_index, stretch_calls>>
legacyVars == <<utterance_data, durations, speaker_dict, durations_stretched>>
mixVars == <<background, final_audio, speaker_counts, c_index, final_mix>>
dubVars == <<fitVars, legacyVars, mixVars>>
alignVars == <<whisper_segments, diarization_segments, w_index, aligned, discarded>>
mergeVars == <<merger, max_gap, segments, m_index, prev, merged_segments, transcript_con>>
vars == <<pc, written, asrVars, stageVars, alignVars, transcript, mergeVars,
          dubVars>>

\* -------------------------------------------------------- Transcriber

\* transcription.py:96, min_duration passed to extend_short_segments, in ms
MinDuration == 500

\* round(x, 2) of a time, where x2 counts half milliseconds and the result
\* counts milliseconds.  Python rounds the binary value of x to the nearest
\* hundredth and resolves an exact tie to the even hundredth; the times drawn
\* here are multiples of 1/8 s, which binary floating point holds exactly.
Round2(x2) ==
  LET lo == (x2 \div 20) * 20
      r  == x2 - lo
  IN IF r < 10 THEN lo \div 2
     ELSE IF r > 10 THEN (lo + 20) \div 2
     ELSE IF (lo \div 20) % 2 = 0 THEN lo \div 2 ELSE (lo + 20) \div 2

\* str.strip()
Strip(s) == RStrip(LStrip(s))

\* transcription.py:37-44, one segment through extend_short_segments; the
\* result counts half milliseconds (mid is (start + end) / 2)
ExtendShort(seg) ==
  LET dur  == seg.end - seg.start
      mid2 == seg.start + seg.end
  IN IF dur < MinDuration
     THEN [seg EXCEPT !.start = Max(0, mid2 - MinDuration),
                      !.end   = mid2 + MinDuration]
     ELSE [seg EXCEPT !.start = 2 * seg.start, !.end = 2 * seg.end]

\* transcription.py:101-108, the dictionary written for one segment
Transcription(seg) ==
  [start |-> Round2(seg.start), end |-> Round2(seg.end), text |-> Strip(seg.text)]

\* transcription.py:96-113: whisper.json is written from result.segments
Transcribe ==
  /\ pc = "transcribe"
  /\ whisper_segments' =
       [i \in DOMAIN result_segments |-> Transcription(ExtendShort(result_segments[i]))]
  /\ written' = written \cup {"whisper.json"}
  /\ pc' = "align"
  /\ UNCHANGED <<asrVars, stageVars, diarization_segments, w_index, aligned, discarded,
                 transcript, mergeVars, dubVars>>

\* ------------------------------------------------------------ Aligner

\* a variant of Overlap that measures from the diarization start only
OverlapNoClip(w_start, w_end, a_start, a_end) ==
  Max(0, w_end - a_start)

\* transcription.py:197
Overlap(w_start, w_end, a_start, a_end) ==
  Max(0, Min(w_end, a_end) - Max(w_start, a_start))

\* a variant of IsBetter that lets a later equal overlap win
IsBetterOrEqual(overlap, max_overlap) == overlap >= max_overlap

\* transcription.py:198, the test that replaces the best candidate
IsBetter(overlap, max_overlap) == overlap > max_overlap

\* transcription.py:190-192
NoMatch == [max_overlap |-> 0, best_speaker |-> None, best_a_seg |-> 0]

\* transcription.py:195-201, the scan of the diarization list from position j
\* on; best_a_seg is the position of the chosen segment, 0 for Python's None.
RECURSIVE ScanDiarization(_, _, _, _)
ScanDiarization(w_seg, diar, j, best) ==
  IF j > Len(diar) THEN best
  ELSE LET a_seg   == diar[j]
           overlap == Overlap(w_seg.start, w_seg.end, a_seg.Start, a_seg.End)
       IN ScanDiarization(w_seg, diar, j + 1,
            IF IsBetter(overlap, best.max_overlap)
            THEN [max_overlap |-> overlap, best_speaker |-> a_seg.Speaker,
                  best_a_seg |-> j]
            ELSE best)

BestMatch(w_seg, diar) == ScanDiarization(w_seg, diar, 1, NoMatch)

\* transcription.py:204, Python truth of `best_speaker and best_a_seg`
Matched(best) ==
  /\ best.best_speaker # None
  /\ best.best_speaker # ""
  /\ best.best_a_seg # 0

\* transcription.py:205-212
AlignedEntry(w_seg, diar, best, n_aligned) ==
  [start   |-> IF n_aligned = 0 THEN diar[best.best_a_seg].Start ELSE w_seg.start,
   end     |-> w_seg.end,
   speaker |-> best.best_speaker,
   text    |-> w_seg.text]

\* transcription.py:187-215, one iteration of the loop over whisper_segments
AlignStep ==
  /\ pc = "align"
  /\ w_index < Len(whisper_segments)
  /\ LET w_seg == whisper_segments[w_index + 1]
         best  == BestMatch(w_seg, diarization_segments)
     IN IF Matched(best)
        THEN /\ aligned' = Append(aligned,
                    AlignedEntry(w_seg, diarization_segments, best, Len(aligned)))
             /\ UNCHANGED discarded
        ELSE /\ discarded' = discarded + 1
             /\ UNCHANGED aligned
  /\ w_index' = w_index + 1
  /\ UNCHANGED <<pc, written, asrVars, stageVars, whisper_segments, diarization_segments,
                 transcript, mergeVars, dubVars>>

\* transcription.py:217-223, the loop is over: transcript.json is written
AlignSave ==
  /\ pc = "align"
  /\ w_index = Len(whisper_segments)
  /\ transcript' = aligned
  /\ written' = written \cup {"transcript.json"}
  /\ pc' = "merge"
  /\ UNCHANGED <<asrVars, stageVars, alignVars, mergeVars, dubVars>>

\* ------------------------------------------------------------- Merger

\* transcription.py:307 / fix_transcripts.py:31-32
JoinText(a, b) == RStrip(a) \o <<" ">> \o LStrip(b)

HasKey(d, k) == k \in DOMAIN d

\* a variant of TimeGap measured to the end of curr
TimeGapBetweenEnds(p, curr) == curr.end - p.end

\* transcription.py:303 / fix_transcripts.py:27
TimeGap(p, curr) == curr.start - p.end

\* a variant of ShouldMerge with an inclusive threshold
ShouldMergeInclusive(p, curr, gap) ==
  curr.speaker = p.speaker /\ curr.start - p.end <= gap

\* transcription.py:304 / fix_transcripts.py:28
ShouldMerge(p, curr, gap) ==
  curr.speaker = p.speaker /\ TimeGap(p, curr) < gap

\* fix_transcripts.py:32 reads prev["translation"] and curr["translation"]
MergeRaises(p, curr, which) ==
  /\ which = "merge_transcripts"
  /\ ~(HasKey(p, "translation") /\ HasKey(curr, "translation"))

\* transcription.py:306-307 / fix_transcripts.py:30-32: the accumulator after
\* the merge of curr into it (prev is mutated in place; its other keys stay)
MergeInto(p, curr, which) ==
  LET q == [p EXCEPT !.end = curr.end, !.text = JoinText(p.text, curr.text)]
  IN IF which = "merge_transcripts"
     THEN [q EXCEPT !.translation = JoinText(p.translation, curr.translation)]
     ELSE q

\* a variant of FinalFlush that drops the last accumulator
FinalFlushForgotten(merged, p) == merged

\* transcription.py:311 / fix_transcripts.py:36
FinalFlush(merged, p) == Append(merged, p)

\* transcription.py:294-299 / fix_transcripts.py:16-24
MergeLoad ==
  /\ pc = "merge"
  /\ "transcript.json" \in written
  /\ segments' = transcript
  /\ IF transcript = <<>>
     THEN /\ pc' = IF merger = "merge_segments" THEN "IndexError" ELSE "no_segments"
          /\ UNCHANGED <<prev, m_index, merged_segments>>
     ELSE /\ pc' = "merging"
          /\ prev' = transcript[1]
          /\ m_index' = 1
          /\ merged_segments' = <<>>
  /\ UNCHANGED <<written, asrVars, stageVars, alignVars, transcript, merger, max_gap,
                 transcript_con, dubVars>>

\* transcription.py:302-310 / fix_transcripts.py:26-35, one iteration
MergeStep ==
  /\ pc = "merging"
  /\ m_index < Len(segments)
  /\ LET curr == segments[m_index + 1]
     IN IF ShouldMerge(prev, curr, max_gap)
        THEN IF MergeRaises(prev, curr, merger)
             THEN /\ pc' = "KeyError"
                  /\ UNCHANGED <<prev, merged_segments>>
             ELSE /\ prev' = MergeInto(prev, curr, merger)
                  /\ UNCHANGED <<pc, merged_segments>>
        ELSE /\ merged_segments' = Append(merged_segments, prev)
             /\ prev' = curr
             /\ UNCHANGED pc
  /\ m_index' = m_index + 1
  /\ UNCHANGED <<written, asrVars, stageVars, alignVars, transcript, merger, max_gap,
                 segments, transcript_con, dubVars>>

\* transcription.py:311-318 / fix_transcripts.py:36-41
MergeFinish ==
  /\ pc = "merging"
  /\ m_index = Len(segments)
  /\ merged_segments' = FinalFlush(merged_segments, prev)
  /\ transcript_con' = merged_segments'
  /\ written' = written \cup {"transcript_con.json"}
  /\ pc' = "merged"
  /\ UNCHANGED <<asrVars, stageVars, alignVars, transcript, merger, max_gap, segments,
                 m_index, prev, dubVars>>

\* The whole Merger as a function of its input list; the same scan as
\* MergeLoad / MergeStep / MergeFinish.
RECURSIVE MergeScan(_, _, _, _, _, _)
MergeScan(segs, i, p, merged, gap, which) ==
  IF i > Len(segs) THEN [status |-> "ok", out |-> FinalFlush(merged, p)]
  ELSE IF ShouldMerge(p, segs[i], gap)
       THEN IF MergeRaises(p, segs[i], which)
            THEN [status |-> "KeyError", out |-> <<>>]
            ELSE MergeScan(segs, i + 1, MergeInto(p, segs[i], which), merged, gap, which)
       ELSE MergeScan(segs, i + 1, segs[i], Append(merged, p), gap, which)

MergeAll(segs, gap, which) ==
  IF segs = <<>>
  THEN [status |-> IF which = "merge_segments" THEN "IndexError" ELSE "no_segments",
        out |-> <<>>]
  ELSE MergeScan(segs, 2, segs[1], <<>>, gap, which)

\* ------------------------------------------------------ Duration Fitter

\* dict.get / dict assignment
Get(d, k, default) == IF k \in DOMAIN d THEN d[k] ELSE default
Put(d, k, v) == [x \in DOMAIN d \cup {k} |-> IF x = k THEN v ELSE d[x]]

\* A stretch ratio is the fraction <<numerator, denominator>>.
RatioLess(a, b) == a[1] * b[2] < b[1] * a[2]

\* Python's min(a, b) and max(a, b): the first argument wins a tie
RatioMin(a, b) == IF RatioLess(b, a) THEN b ELSE a
RatioMax(a, b) == IF RatioLess(a, b) THEN b ELSE a

\* tts.py:186-187
MIN_RATIO == <<3, 4>>
MAX_RATIO == <<5, 4>>

\* tts.py:209
ClampedRatio(ratio) == RatioMax(MIN_RATIO, RatioMin(MAX_RATIO, ratio))

\* tts.py:192 / mixing.py:222, int((end - start) * 1000)
TargetMs(utterance) == utterance.end - utterance.start

\* tts.py:190 / mixing.py:224-225: the number an utterance gets among the
\* utterances of its speaker, counted from 1 in list order
UttNumber(tr, i) == Cardinality({j \in 1..i : tr[j].speaker = tr[i].speaker})

\* the clip of utterance i: {speaker}_utt_{idx}
ClipKey(tr, i) == <<tr[i].speaker, UttNumber(tr, i)>>

\* tts.py:173-178, 190: by_speaker is filled in list order and walked speaker
\* by speaker, so position i is visited before j when its speaker appeared
\* first, or they share the speaker and i < j
FirstOf(tr, speaker) ==
  CHOOSE j \in 1..Len(tr) :
    tr[j].speaker = speaker /\ \A k \in 1..(j - 1) : tr[k].speaker # speaker

VisitedBefore(tr, i, j) ==
  LET fi == FirstOf(tr, tr[i].speaker)
      fj == FirstOf(tr, tr[j].speaker)
  IN fi < fj \/ (fi = fj /\ i < j)

VisitOrder(tr) ==
  [k \in 1..Len(tr) |->
     CHOOSE i \in 1..Len(tr) :
       Cardinality({j \in 1..Len(tr) : VisitedBefore(tr, j, i)}) = k - 1]

\* stretch_audio of audiostretchy: the output lasts ratio times the input,
\* give or take the silence the library leaves at the end
\* (time_stretch.py:47-49)
StretchedLengths(orig_ms, ratio) ==
  LET q == (orig_ms * ratio[1]) \div ratio[2]
  IN {q, q + 1}

\* tts.py:190-231, one utterance of time_stretch_vc
FitStep ==
  /\ pc = "fit"
  /\ fitter = "time_stretch_vc"
  /\ f_index < Len(transcript_con)
  /\ LET i         == VisitOrder(transcript_con)[f_index + 1]
         utterance == transcript_con[i]
         target_ms == TargetMs(utterance)
         src_path  == ClipKey(transcript_con, i)
     IN IF src_path \notin DOMAIN tts_vc
        THEN UNCHANGED <<tts_vc_stretched, stretch_calls>>
        ELSE LET orig == tts_vc[src_path]
             IN IF orig = 0
                THEN UNCHANGED <<tts_vc_stretched, stretch_calls>>
                ELSE LET ratio         == <<target_ms, orig>>
                         clamped_ratio == ClampedRatio(ratio)
                     IN \E out \in StretchedLengths(orig, clamped_ratio) :
                          /\ tts_vc_stretched' = Put(tts_vc_stretched, src_path, out)
                          /\ stretch_calls' = Append(stretch_calls,
                               [fitter |-> fitter, src |-> src_path,
                                target_ms |-> target_ms, orig_ms |-> orig,
                                ratio |-> clamped_ratio, out_ms |-> out])
  /\ f_index' = f_index + 1
  /\ UNCHANGED <<pc, written, asrVars, stageVars, alignVars, transcript, mergeVars,
                 fitter, tts_vc, legacyVars, mixVars>>

\* tts.py:233, every speaker is done
FitDone ==
  /\ pc = "fit"
  /\ fitter = "time_stretch_vc"
  /\ f_index = Len(transcript_con)
  /\ written' = written \cup {"tts_vc_stretched"}
  /\ pc' = "mix"
  /\ UNCHANGED <<asrVars, stageVars, alignVars, transcript, mergeVars, dubVars>>

\* time_stretch.py:9
alphabet ==
  <<"A", "B", "C", "D", "E", "F", "G", "H", "I", "J", "K", "L", "M", "N",
    "O", "P", "Q", "R", "S", "T", "U", "V", "X", "Y", "Z">>

\* time_stretch.py:23, alphabet.index(speaker)
SpeakerIndex(speaker) == (CHOOSE n \in DOMAIN alphabet : alphabet[n] = speaker) - 1

\* time_stretch.py:50, stretched[:original_length]
Trimmed(stretched, original_length) == Min(stretched, original_length)

\* time_stretch.py:20-57, one utterance of time_stretch; the track of the
\* speaker holds the tts_duration milliseconds that line 35 slices
StretchStep ==
  /\ pc = "fit"
  /\ fitter = "time_stretch"
  /\ f_index < Len(utterance_data)
  /\ LET utterance       == utterance_data[f_index + 1]
         speaker_index   == SpeakerIndex(utterance.Speaker)
         count           == Get(speaker_dict, speaker_index, 0)
         tts_duration    == durations[speaker_index][count + 1]
         original_length == utterance.Duration
     IN IF tts_duration = 0
        THEN /\ pc' = "ZeroDivisionError"
             /\ UNCHANGED f_index
             /\ speaker_dict' = Put(speaker_dict, speaker_index, count)
             /\ durations_stretched' =
                  Put(durations_stretched, speaker_index,
                      Get(durations_stretched, speaker_index, <<>>))
             /\ UNCHANGED stretch_calls
        ELSE LET ratio == <<original_length, tts_duration>>
             IN \E stretched \in StretchedLengths(tts_duration, ratio) :
                  LET trimmed == Trimmed(stretched, original_length)
                  IN /\ speaker_dict' = Put(speaker_dict, speaker_index, count + 1)
                     /\ durations_stretched' =
                          Put(durations_stretched, speaker_index,
                              Append(Get(durations_stretched, speaker_index, <<>>),
                                     trimmed))
                     /\ stretch_calls' = Append(stretch_calls,
                          [fitter |-> fitter, src |-> <<utterance.Speaker, count + 1>>,
                           target_ms |-> original_length, orig_ms |-> tts_duration,
                           ratio |-> ratio, out_ms |-> trimmed])
                     /\ f_index' = f_index + 1
                     /\ UNCHANGED pc
  /\ UNCHANGED <<written, asrVars, stageVars, alignVars, transcript, mergeVars,
                 fitter, tts_vc, tts_vc_stretched, utterance_data, durations,
                 mixVars>>

\* time_stretch.py:58-61, the tracks of the speakers are written
StretchFinish ==
  /\ pc = "fit"
  /\ fitter = "time_stretch"
  /\ f_index = Len(utterance_data)
  /\ written' = written \cup {"tts_stretched"}
  /\ pc' = "stretched"
  /\ UNCHANGED <<asrVars, stageVars, alignVars, transcript, mergeVars, dubVars>>

\* ---------------------------------------------------------- Compositor

\* The track is a function from the millisecond to the set of clip samples
\* mixed onto the background there: <<clip, t>> is millisecond t of the clip.
Background(length) == [t \in 0..(length - 1) |-> {}]

\* a variant of Truncated that keeps the whole clip
NotTruncated(length, duration) == length

\* mixing.py:239, AudioSegment[:duration]: the length of the slice
Truncated(length, duration) == Min(length, duration)

\* mixing.py:240, pydub's overlay: the result is as long as the track, and
\* the clip is mixed in from position on for as long as both last
Overlay(track, clip, length, position) ==
  [t \in DOMAIN track |->
     IF position <= t /\ t < position + length
     THEN track[t] \cup {<<clip, t - position>>}
     ELSE track[t]]

\* a variant of AfterUtterance that starts the track over at a missing clip
AfterUtteranceResetOnMissing(track, folder, vc_path, duration, start) ==
  IF vc_path \notin DOMAIN folder
  THEN [t \in DOMAIN track |-> {}]
  ELSE Overlay(track, vc_path, Truncated(folder[vc_path], duration), start)

\* mixing.py:235-240: a missing clip is skipped, any other is sliced and
\* overlaid
AfterUtterance(track, folder, vc_path, duration, start) ==
  IF vc_path \notin DOMAIN folder
  THEN track
  ELSE Overlay(track, vc_path, Truncated(folder[vc_path], duration), start)

\* mixing.py:207-218
MixLoad ==
  /\ pc = "mix"
  /\ IF "transcript_con.json" \notin written
     THEN /\ pc' = "FileNotFoundError"
          /\ UNCHANGED mixVars
     ELSE /\ pc' = "mixing"
          /\ final_audio' = Background(background)
          /\ speaker_counts' = <<>>
          /\ c_index' = 0
          /\ UNCHANGED <<background, final_mix>>
  /\ UNCHANGED <<written, asrVars, stageVars, alignVars, transcript, mergeVars, fitVars,
                 legacyVars>>

\* mixing.py:219-240, one utterance of combine_audio
MixStep ==
  /\ pc = "mixing"
  /\ c_index < Len(transcript_con)
  /\ LET utt      == transcript_con[c_index + 1]
         speaker  == utt.speaker
         start    == utt.start
         duration == TargetMs(utt)
         idx      == Get(speaker_counts, speaker, 0) + 1
         vc_path  == <<speaker, idx>>
     IN /\ speaker_counts' = Put(speaker_counts, speaker, idx)
        /\ final_audio' = AfterUtterance(final_audio, tts_vc, vc_path, duration, start)
  /\ c_index' = c_index + 1
  /\ UNCHANGED <<pc, written, asrVars, stageVars, alignVars, transcript, mergeVars,
                 fitVars, legacyVars, background, final_mix>>

\* a variant of MixExport that does not wait for the end of the loop
MixExportEarly ==
  /\ pc = "mixing"
  /\ final_mix' = final_audio
  /\ written' = written \cup {"final_mix.wav"}
  /\ pc' = "mixed"
  /\ UNCHANGED <<asrVars, stageVars, alignVars, transcript, mergeVars, fitVars,
                 legacyVars, background, final_audio, speaker_counts, c_index>>

\* mixing.py:242-247, the mix is written once, after the loop
MixExport ==
  /\ pc = "mixing"
  /\ c_index = Len(transcript_con)
  /\ final_mix' = final_audio
  /\ written' = written \cup {"final_mix.wav"}
  /\ pc' = "mixed"
  /\ UNCHANGED <<asrVars, stageVars, alignVars, transcript, mergeVars, fitVars,
                 legacyVars, background, final_audio, speaker_counts, c_index>>

\* ---------------------------------------------------------- Translator
\* translate (transcription.py:226-274), then tts (tts.py:74-137), both
\* on transcript_con.json as re_run.py:69,72 calls them.

max_retries == 5
InitialDelay == 1

\* translator.translate_text: the text in the target language
TranslateText(text) ==
  [i \in DOMAIN text |->
     IF \E k \in DOMAIN Letters : Letters[k] = text[i]
     THEN UpperLetters[CHOOSE k \in DOMAIN Letters : Letters[k] = text[i]]
     ELSE text[i]]

\* what one call of translate_text can do
Outcomes == {"ok", "TooManyRequestsException", "DeepLException"}

\* transcription.py:242-243
TranslateLoad ==
  /\ pc = "translate"
  /\ IF "transcript_con.json" \in written
     THEN /\ pc' = "translating"
          /\ translating' = transcript_con
     ELSE /\ pc' = "FileNotFoundError"
          /\ UNCHANGED translating
  /\ tl_index' = 0
  /\ attempt' = 0
  /\ delay' = InitialDelay
  /\ UNCHANGED <<written, asrVars, vcVars, runVars, sliceVars, translate_log, tts_index, speaker_tts, alignVars,
                 transcript, mergeVars, dubVars>>

\* the retry loop is left: the next utterance starts at lines 251-252
NextUtterance ==
  /\ tl_index' = tl_index + 1
  /\ attempt' = 0
  /\ delay' = InitialDelay

\* the for-else of lines 266-268
RetriesExhaustedKeepsField(utterance) == utterance
RetriesExhausted(utterance) == Put(utterance, "translation", <<>>)

\* transcription.py:247-249: an utterance without text is passed over
TranslateSkip ==
  /\ pc = "translating"
  /\ tl_index < Len(translating)
  /\ Get(translating[tl_index + 1], "text", <<>>) = <<>>
  /\ NextUtterance
  /\ UNCHANGED <<pc, written, asrVars, vcVars, runVars, sliceVars, translating, translate_log, tts_index,
                 speaker_tts, alignVars, transcript, mergeVars, dubVars>>

\* transcription.py:254-268: one pass of the retry loop
TranslateAttempt ==
  /\ pc = "translating"
  /\ tl_index < Len(translating)
  /\ LET i == tl_index + 1
         utterance == translating[i]
         text == Get(utterance, "text", <<>>)
     IN /\ text # <<>>
        /\ attempt < max_retries
        /\ \E outcome \in Outcomes :
             /\ translate_log' = Append(translate_log,
                  [utt |-> i, attempt |-> attempt, outcome |-> outcome,
                   slept |-> IF outcome = "TooManyRequestsException"
                             THEN delay ELSE 0])
             /\ CASE outcome = "ok" ->
                       /\ translating' = [translating EXCEPT ![i] =
                            Put(utterance, "translation", TranslateText(text))]
                       /\ NextUtterance
                  [] outcome = "TooManyRequestsException" ->
                       IF attempt + 1 < max_retries
                       THEN /\ attempt' = attempt + 1
                            /\ delay' = delay * 2
                            /\ UNCHANGED <<translating, tl_index>>
                       ELSE /\ translating' = [translating EXCEPT ![i] =
                                 RetriesExhausted(utterance)]
                            /\ NextUtterance
                  [] outcome = "DeepLException" ->
                       /\ UNCHANGED translating
                       /\ NextUtterance
  /\ UNCHANGED <<pc, written, asrVars, vcVars, runVars, sliceVars, tts_index, speaker_tts, alignVars,
                 transcript, mergeVars, dubVars>>

\* transcription.py:271-272
TranslateSave ==
  /\ pc = "translating"
  /\ tl_index = Len(translating)
  /\ transcript_con' = translating
  /\ pc' = "tts"
  /\ UNCHANGED <<written, asrVars, stageVars, alignVars, transcript, merger, max_gap,
                 segments, m_index, prev, merged_segments, dubVars>>

\* the lengths a synthesised and trimmed clip can have, in ms
SynthLengths == {3, 5}

\* tts.py:115-135 with the credentials of lines 96-98 in place
TtsStep ==
  /\ pc = "tts"
  /\ tts_index < Len(transcript_con)
  /\ LET utterance == transcript_con[tts_index + 1]
     IN IF ~HasKey(utterance, "translation")
        THEN /\ pc' = "KeyError"
             /\ UNCHANGED <<tts_index, speaker_tts>>
        ELSE /\ \E length \in SynthLengths :
                  speaker_tts' = Put(speaker_tts,
                                     ClipKey(transcript_con, tts_index + 1), length)
             /\ tts_index' = tts_index + 1
             /\ UNCHANGED pc
  /\ UNCHANGED <<written, asrVars, vcVars, runVars, sliceVars, translating, tl_index, attempt, delay,
                 translate_log, alignVars, transcript, mergeVars, dubVars>>

\* tts.py:137
TtsDone ==
  /\ pc = "tts"
  /\ tts_index = Len(transcript_con)
  /\ pc' = "synthesised"
  /\ UNCHANGED <<written, asrVars, stageVars, alignVars, transcript, mergeVars, dubVars>>

\* ------------------------------------------------------------- Pipeline
\* The two drivers as sequences of stages.  A stage names the artifact the
\* driver looks for before calling it (checked), the artifact it produces
\* (output) and whether the stage has created that artifact before its
\* work is complete (early), so that a failure inside it leaves it behind.

\* pipelines/test_pipeline.py, main
TestPipelineStages ==
  <<[name |-> "extract_audio", checked |-> TRUE, early |-> FALSE,
     output |-> "extracted_audio.wav"],
    [name |-> "separate_vocals", checked |-> TRUE, early |-> FALSE,
     output |-> "processed_vocals.wav"],
    [name |-> "run_speaker_diarization", checked |-> TRUE, early |-> FALSE,
     output |-> "transcription.json"],
    [name |-> "split_audio_by_speaker", checked |-> FALSE, early |-> TRUE,
     output |-> "speaker_audio"],
    [name |-> "synthesize_text", checked |-> TRUE, early |-> FALSE,
     output |-> "speaker_tts"],
    [name |-> "time_stretch", checked |-> TRUE, early |-> TRUE,
     output |-> "tts_stretched"],
    [name |-> "run_seed_vc", checked |-> TRUE, early |-> TRUE,
     output |-> "vc"],
    [name |-> "combine_audio", checked |-> FALSE, early |-> FALSE,
     output |-> "output_audio.wav"],
    [name |-> "mix_audio_with_video", checked |-> FALSE, early |-> FALSE,
     output |-> "video_output.mp4"]>>

\* re_run.py, run_pipeline
ReRunStages ==
  <<[name |-> "translate", checked |-> FALSE, early |-> FALSE,
     output |-> "transcript_con.json"],
    [name |-> "split_audio_by_utterance", checked |-> FALSE, early |-> TRUE,
     output |-> "utterances"],
    [name |-> "build_all_reference_audios", checked |-> FALSE, early |-> TRUE,
     output |-> "references"],
    [name |-> "tts", checked |-> FALSE, early |-> TRUE,
     output |-> "tts"],
    [name |-> "process_all_voice_conversions", checked |-> FALSE, early |-> TRUE,
     output |-> "tts_vc"],
    [name |-> "time_stretch_vc", checked |-> FALSE, early |-> TRUE,
     output |-> "tts_vc_stretched"],
    [name |-> "combine_audio", checked |-> FALSE, early |-> FALSE,
     output |-> "final_mix.wav"],
    [name |-> "mix_audio_with_video", checked |-> FALSE, early |-> FALSE,
     output |-> "dubbed.mp4"]>>

Stages(p) == IF p = "test_pipeline" THEN TestPipelineStages ELSE ReRunStages

\* test_pipeline.py:89 binds durations, :96 reads it
BindsDurations(st) == st.name = "synthesize_text"
ReadsDurations(st) == st.name = "time_stretch"

\* the skip-if-exists test of the driver in front of a stage
SkipIfExists(st) == st.checked /\ st.output \in DOMAIN artifacts

\* one stage of the driver: passed over, or called; a call completes or a
\* failure inside it ends the run
RunStage ==
  /\ pc = "run"
  /\ stage <= Len(Stages(pipeline))
  /\ LET st == Stages(pipeline)[stage]
     IN IF SkipIfExists(st)
        THEN /\ skipped' = skipped \cup {stage}
             /\ stage' = stage + 1
             /\ UNCHANGED <<pc, artifacts, executed, durations_bound>>
        ELSE IF ReadsDurations(st) /\ ~durations_bound
        THEN /\ pc' = "NameError"
             /\ UNCHANGED <<stage, artifacts, executed, skipped, durations_bound>>
        ELSE /\ executed' = executed \cup {stage}
             /\ UNCHANGED skipped
             /\ \/ /\ artifacts' = Put(artifacts, st.output, "complete")
                   /\ durations_bound' = (durations_bound \/ BindsDurations(st))
                   /\ stage' = stage + 1
                   /\ UNCHANGED pc
                \/ /\ artifacts' = IF st.early
                                   THEN Put(artifacts, st.output, "partial")
                                   ELSE artifacts
                   /\ pc' = "aborted"
                   /\ UNCHANGED <<stage, durations_bound>>
  /\ UNCHANGED <<written, asrVars, vcVars, langVars, sliceVars, pipeline, run_no, history, alignVars,
                 transcript, mergeVars, dubVars>>

\* the driver returns
RunFinish ==
  /\ pc = "run"
  /\ stage = Len(Stages(pipeline)) + 1
  /\ pc' = "finished"
  /\ UNCHANGED <<written, asrVars, stageVars, alignVars, transcript, mergeVars, dubVars>>

\* the driver is started again from the top
ReEnter ==
  /\ pc \in {"aborted", "finished", "NameError"}
  /\ run_no < MaxRuns
  /\ history' = Append(history, [outcome |-> pc, stage |-> stage,
                                 executed |-> executed])
  /\ run_no' = run_no + 1
  /\ stage' = 1
  /\ executed' = {}
  /\ skipped' = {}
  /\ durations_bound' = FALSE
  /\ pc' = "run"
  /\ UNCHANGED <<written, asrVars, vcVars, langVars, sliceVars, pipeline, artifacts, alignVars,
                 transcript, mergeVars, dubVars>>

\* ------------------------------------------------------------ Slicer
\* split_audio_by_utterance (tts.py:236-288) and build_all_reference_audios
\* (tts.py:291-351).  A clip of utterances/ is the stretch [from, to) of
\* the vocals track it holds and the utterance it was cut for; a clip of
\* references/ is the sequence of the utterance clips it concatenates.

Padding == 500

\* tts.py:270, 273
ExtensionAlwaysFull(diff) == Padding
Extension(diff) == Min(Padding, diff)

\* vocals[start_ms:end_ms]: both ends are brought inside the track
Slice(length, start_ms, end_ms) ==
  [from |-> Min(start_ms, length), to |-> Min(end_ms, length)]

\* tts.py:281-282
UttIdxAcrossSpeakers(counts, speaker_id) == s_index + 1
UttIdx(counts, speaker_id) == Get(counts, speaker_id, 0) + 1

\* tts.py:262-286, one utterance
SliceStep ==
  /\ pc = "slice"
  /\ s_index < Len(transcript_con)
  /\ LET i          == s_index + 1
         utterance  == transcript_con[i]
         speaker_id == utterance.speaker
         start_ms   == utterance.start
         end_ms     == utterance.end
         diff       == IF i < Len(transcript_con)
                       THEN transcript_con[i + 1].start - end_ms
                       ELSE vocals - end_ms
         seg        == Slice(vocals, start_ms, end_ms + Extension(diff))
         utt_idx    == UttIdx(slice_counts, speaker_id)
     IN /\ slice_counts' = Put(slice_counts, speaker_id, utt_idx)
        /\ utterances' = Put(utterances, <<speaker_id, utt_idx>>,
                             [from |-> seg.from, to |-> seg.to, utt |-> i])
  /\ s_index' = s_index + 1
  /\ UNCHANGED <<pc, written, asrVars, vcVars, langVars, runVars, vocals, reference_window,
                 references, r_done, alignVars, transcript, mergeVars, dubVars>>

\* tts.py:288
SliceDone ==
  /\ pc = "slice"
  /\ s_index = Len(transcript_con)
  /\ pc' = "references"
  /\ UNCHANGED <<written, asrVars, stageVars, alignVars, transcript, mergeVars, dubVars>>

\* tts.py:319-322: the files of a speaker's utterances folder, sorted
Files(spk) ==
  LET ids == {k[2] : k \in {x \in DOMAIN utterances : x[1] = spk}}
  IN [p \in 1..Cardinality(ids) |->
        CHOOSE n \in ids : Cardinality({m \in ids : m < n}) = p - 1]

\* the speakers that have a folder
SpeakerFolders == {k[1] : k \in DOMAIN utterances}

Handled(spk) == Cardinality({k \in r_done : k[1] = spk})

\* tts.py:329-337: the neighbours that exist, from idx - window upwards
RefPathsOwnClipOnly(spk, idx_int) == <<<<spk, idx_int>>>>
RefPaths(spk, idx_int) ==
  LET offsets == [o \in 1..(2 * reference_window + 1) |-> o - 1 - reference_window]
      wanted  == [o \in DOMAIN offsets |-> <<spk, idx_int + offsets[o]>>]
  IN SelectSeq(wanted, LAMBDA k : k[2] >= 1 /\ k \in DOMAIN utterances)

\* tts.py:325-349, one file of one speaker; a speaker's files are gone
\* through in order before the next speaker is taken up
RefStep ==
  /\ pc = "references"
  /\ \E spk \in SpeakerFolders :
       /\ Handled(spk) < Len(Files(spk))
       /\ \A other \in SpeakerFolders \ {spk} :
            Handled(other) \in {0, Len(Files(other))}
       /\ LET idx_int   == Handled(spk) + 1
              ref_paths == RefPaths(spk, idx_int)
          IN /\ r_done' = r_done \cup {<<spk, idx_int>>}
             /\ references' = IF ref_paths = <<>>
                              THEN references
                              ELSE Put(references, <<spk, idx_int>>, ref_paths)
  /\ UNCHANGED <<pc, written, asrVars, vcVars, langVars, runVars, vocals, utterances,
                 slice_counts, s_index, reference_window, alignVars, transcript,
                 mergeVars, dubVars>>

\* tts.py:351
RefDone ==
  /\ pc = "references"
  /\ \A spk \in SpeakerFolders : Handled(spk) = Len(Files(spk))
  /\ pc' = "fit"
  /\ UNCHANGED <<written, asrVars, stageVars, alignVars, transcript, mergeVars, dubVars>>

\* ---------------------------------------------------- Voice converter
\* process_all_voice_conversions (tts.py:396-469).  tts/ is speaker_tts,
\* references/ is references; a clip of tts_vc/ is the tts clip and the
\* reference clip it was converted from.

\* the decimal digits of n
RECURSIVE Digits(_)
Digits(n) == IF n < 10 THEN <<n>> ELSE Digits(n \div 10) \o <<n % 10>>

\* f"{idx:02d}"
Pad2(n) == IF n < 10 THEN <<0, n>> ELSE Digits(n)

\* the order of two file names that differ in the number only: the name
\* whose digits end first is followed by ".", which sorts before any digit
RECURSIVE LexLess(_, _)
LexLess(a, b) ==
  IF a = <<>> THEN b # <<>>
  ELSE IF b = <<>> THEN FALSE
  ELSE IF a[1] # b[1] THEN a[1] < b[1]
  ELSE LexLess(Tail(a), Tail(b))

\* the numbers of the files of a speaker's tts folder
TtsIds(spk) == {k[2] : k \in {x \in DOMAIN speaker_tts : x[1] = spk}}

\* tts.py:432-435: those numbers in the sorted order of the file names
TtsFiles(spk) ==
  [p \in 1..Cardinality(TtsIds(spk)) |->
     CHOOSE n \in TtsIds(spk) :
       Cardinality({m \in TtsIds(spk) : LexLess(Pad2(m), Pad2(n))}) = p - 1]

\* tts.py:414-428: the speakers with a tts and a references folder
VcFolders == {k[1] : k \in DOMAIN speaker_tts} \cap {k[1] : k \in DOMAIN references}

VcHandled(spk) == Cardinality({k \in vc_done : k[1] = spk})

\* tts.py:441-467, one file of one speaker; a speaker's files are gone
\* through in order before the next speaker is taken up
VcStep ==
  /\ pc = "convert"
  /\ \E spk \in VcFolders :
       /\ VcHandled(spk) < Cardinality(TtsIds(spk))
       /\ \A other \in VcFolders \ {spk} :
            VcHandled(other) \in {0, Cardinality(TtsIds(other))}
       /\ LET idx    == VcHandled(spk) + 1
              fname  == TtsFiles(spk)[idx]
              utt_id == <<spk, idx>>
          IN /\ vc_done' = vc_done \cup {utt_id}
             /\ IF utt_id \notin DOMAIN references
                THEN UNCHANGED converted
                ELSE \/ converted' = Put(converted, utt_id,
                                         [src |-> <<spk, fname>>, ref |-> utt_id])
                     \/ /\ seed_vc = "flaky"
                        /\ UNCHANGED converted
  /\ UNCHANGED <<pc, written, asrVars, langVars, runVars, sliceVars, seed_vc, trim_runs,
                 alignVars, transcript, mergeVars, dubVars>>

\* tts.py:469
VcDone ==
  /\ pc = "convert"
  /\ \A spk \in VcFolders : VcHandled(spk) = Cardinality(TtsIds(spk))
  /\ pc' = "converted"
  /\ UNCHANGED <<written, asrVars, stageVars, alignVars, transcript, mergeVars, dubVars>>

\* tts.py:15, the defaults of trim_vc_start
FramesToTrim == 3
Fps == 30

\* tts.py:26, int((frames_to_trim / fps) * 1000)
TrimMs == (FramesToTrim * 1000) \div Fps

\* tts.py:30-43, trim_vc_start: every clip of every speaker's tts_vc folder
\* is loaded, cut from TrimMs on and exported to the path it was loaded from
TrimVcStart ==
  /\ pc = "trim"
  /\ trim_runs < MaxRuns
  /\ tts_vc' = [k \in DOMAIN tts_vc |-> Max(0, tts_vc[k] - TrimMs)]
  /\ trim_runs' = trim_runs + 1
  /\ UNCHANGED <<pc, written, asrVars, langVars, runVars, sliceVars, converted, vc_done,
                 seed_vc, alignVars, transcript, mergeVars, fitter, tts_vc_stretched,
                 f_index, stretch_calls, legacyVars, mixVars>>

\* ------------------------------------------------------ initial states

NoUtt == [start |-> 0, end |-> 0, speaker |-> "", text |-> <<>>]

\* whisper.json: segments in start order, one word each
WhisperLists ==
  {[i \in DOMAIN ivs |-> [start |-> ivs[i][1], end |-> ivs[i][2], text |-> Word(i)]] :
     ivs \in {s \in SeqsUpTo(Intervals(MaxSegTime), MaxSegs) :
                \A i \in 1..(Len(s) - 1) : s[i][1] <= s[i + 1][1]}}

\* diarization.json: any list of labelled segments
DiarizationLists ==
  {[i \in DOMAIN ds |-> [Speaker |-> ds[i][1], Start |-> ds[i][2][1], End |-> ds[i][2][2]]] :
     ds \in SeqsUpTo(Speakers \X Intervals(MaxSegTime), MaxSegs)}

\* spec.md section 8, end-to-end scenario
ScenarioWhisper ==
  <<[start |-> 0, end |-> 2000, text |-> <<"h", "i">>],
    [start |-> 2000, end |-> 4000, text |-> <<"t", "h", "e", "r", "e">>]>>
ScenarioDiarization ==
  <<[Speaker |-> "A", Start |-> 0, End |-> 2100],
    [Speaker |-> "B", Start |-> 1900, End |-> 4000]>>

AsrIdle == result_segments = <<>>

LangIdle ==
  /\ translating = <<>>
  /\ tl_index = 0
  /\ attempt = 0
  /\ delay = 1
  /\ translate_log = <<>>
  /\ tts_index = 0
  /\ speaker_tts = <<>>

RunIdle ==
  /\ pipeline = "re_run"
  /\ run_no = 1
  /\ stage = 1
  /\ artifacts = <<>>
  /\ executed = {}
  /\ skipped = {}
  /\ durations_bound = FALSE
  /\ history = <<>>

SliceIdle ==
  /\ vocals = 0
  /\ utterances = <<>>
  /\ slice_counts = <<>>
  /\ s_index = 0
  /\ reference_window = 1
  /\ references = <<>>
  /\ r_done = {}

VcIdle ==
  /\ converted = <<>>
  /\ vc_done = {}
  /\ seed_vc = "ok"
  /\ trim_runs = 0

StageIdle == LangIdle /\ RunIdle /\ SliceIdle /\ VcIdle

FitIdle ==
  /\ fitter = "time_stretch_vc"
  /\ tts_vc = <<>>
  /\ tts_vc_stretched = <<>>
  /\ f_index = 0
  /\ stretch_calls = <<>>

LegacyIdle ==
  /\ utterance_data = <<>>
  /\ durations = <<>>
  /\ speaker_dict = <<>>
  /\ durations_stretched = <<>>

MixIdle ==
  /\ background = 0
  /\ final_audio = <<>>
  /\ speaker_counts = <<>>
  /\ c_index = 0
  /\ final_mix = <<>>

DubIdle == FitIdle /\ LegacyIdle /\ MixIdle

MergerAtRest(mergers, gaps) ==
  /\ merger \in mergers
  /\ max_gap \in gaps
  /\ segments = <<>>
  /\ m_index = 0
  /\ prev = NoUtt
  /\ merged_segments = <<>>

MergeIdle(mergers, gaps) ==
  /\ MergerAtRest(mergers, gaps)
  /\ transcript_con = <<>>

InitAlign ==
  /\ pc = "align"
  /\ written = {"whisper.json", "diarization.json"}
  /\ \/ /\ whisper_segments \in WhisperLists
        /\ diarization_segments \in DiarizationLists
     \/ /\ whisper_segments = ScenarioWhisper
        /\ diarization_segments = ScenarioDiarization
  /\ w_index = 0
  /\ aligned = <<>>
  /\ discarded = 0
  /\ transcript = <<>>
  /\ MergeIdle({"merge_segments"}, {1})
  /\ AsrIdle
  /\ StageIdle
  /\ DubIdle

NextAlign == AlignStep \/ AlignSave

SpecAlign == InitAlign /\ [][NextAlign]_vars

\* transcript.json as the Merger may find it: utterances in start order, one
\* word each, all of them translated or none of them.

Utterance(i, spk, iv, translated) ==
  IF translated
  THEN [start |-> iv[1], end |-> iv[2], speaker |-> spk, text |-> Word(i),
        translation |-> <<UpperLetters[i]>>]
  ELSE [start |-> iv[1], end |-> iv[2], speaker |-> spk, text |-> Word(i)]

Timelines(translated) ==
  {[i \in DOMAIN us |-> Utterance(i, us[i][1], us[i][2], translated)] :
     us \in {s \in SeqsUpTo(Speakers \X Intervals(MaxTime), MaxUtts) :
               \A i \in 1..(Len(s) - 1) : s[i][2][1] <= s[i + 1][2][1]}}

\* spec.md section 8, merge scenario
ScenarioTimeline ==
  <<[start |-> 0, end |-> 1000, speaker |-> "A", text |-> <<"a">>],
    [start |-> 1200, end |-> 2000, speaker |-> "A", text |-> <<"b">>]>>

AlignIdle ==
  /\ whisper_segments = <<>>
  /\ diarization_segments = <<>>
  /\ w_index = 0
  /\ aligned = <<>>
  /\ discarded = 0

InitMerge ==
  /\ pc = "merge"
  /\ written = {"transcript.json"}
  /\ AsrIdle
  /\ StageIdle
  /\ AlignIdle
  /\ DubIdle
  /\ \/ /\ transcript \in Timelines(TRUE) \cup Timelines(FALSE)
        /\ MergeIdle({"merge_segments", "merge_transcripts"}, {1, 2})
     \/ /\ transcript = ScenarioTimeline
        /\ MergeIdle({"merge_segments", "merge_transcripts"}, {100, 300})

NextMerge == MergeLoad \/ MergeStep \/ MergeFinish

SpecMerge == InitMerge /\ [][NextMerge]_vars

\* The whole front of the pipeline: transcribe, align_speaker_labels, Merger.
MaxTick == 8      \* recogniser times are drawn from 0, 1/8 s, .., MaxTick/8 s

ResultTimes == {125 * k : k \in 0..MaxTick}

TimeIntervals == {iv \in ResultTimes \X ResultTimes : iv[1] < iv[2]}

\* speaker turns begin and end on quarter seconds
TurnIntervals == {iv \in TimeIntervals : iv[1] % 250 = 0 /\ iv[2] % 250 = 0}

\* the turns of a list follow one another without overlapping
Consecutive(ivs) == \A i \in 1..(Len(ivs) - 1) : ivs[i][2] <= ivs[i + 1][1]

\* result.segments: consecutive segments whose text begins with a space
ResultLists ==
  {[i \in DOMAIN ivs |-> [start |-> ivs[i][1], end |-> ivs[i][2],
                          text |-> <<" ">> \o Word(i)]] :
     ivs \in {s \in SeqsUpTo(TimeIntervals, MaxSegs) : Consecutive(s)}}

\* diarization.json: consecutive speaker turns
DiarizationTurns ==
  {[i \in DOMAIN ds |-> [Speaker |-> ds[i][1], Start |-> ds[i][2][1], End |-> ds[i][2][2]]] :
     ds \in {s \in SeqsUpTo(Speakers \X TurnIntervals, MaxSegs) :
               Consecutive([i \in DOMAIN s |-> s[i][2]])}}

\* transcription.py:277 and fix_transcripts.py:43: each Merger with the
\* threshold it runs with, in ms
MergerDefaults == {<<"merge_segments", 450>>, <<"merge_transcripts", 1000>>}

InitTimeline ==
  /\ pc = "transcribe"
  /\ written = {"diarization.json"}
  /\ result_segments \in ResultLists
  /\ whisper_segments = <<>>
  /\ diarization_segments \in DiarizationTurns
  /\ w_index = 0
  /\ aligned = <<>>
  /\ discarded = 0
  /\ transcript = <<>>
  /\ \E m \in MergerDefaults : MergeIdle({m[1]}, {m[2]})
  /\ StageIdle
  /\ DubIdle

NextTimeline ==
  \/ Transcribe
  \/ AlignStep
  \/ AlignSave
  \/ MergeLoad
  \/ MergeStep
  \/ MergeFinish

SpecTimeline == InitTimeline /\ [][NextTimeline]_vars

\* align_speaker_labels followed by merge_segments on the transcript.json it
\* wrote, from any whisper.json in start order.
NextAlignMerge ==
  \/ AlignStep
  \/ AlignSave
  \/ MergeLoad
  \/ MergeStep
  \/ MergeFinish

SpecAlignMerge == InitAlign /\ [][NextAlignMerge]_vars

\* The dubbing stages of re_run.py, which read transcript_con.json.
MaxClips == 2     \* longest timeline the dubbing stages are given
MaxSlot == 2      \* its times are drawn from 0, 3, .., 3 * MaxSlot ms

SlotIntervals == {<<3 * iv[1], 3 * iv[2]>> : iv \in Intervals(MaxSlot)}

\* the lengths in ms a clip on disk may have
ClipLengths == {0, 3, 4, 5, 12}

DubTimelines ==
  {[i \in DOMAIN us |-> Utterance(i, us[i][1], us[i][2], TRUE)] :
     us \in {s \in SeqsUpTo(Speakers \X SlotIntervals, MaxClips) :
               \A i \in 1..(Len(s) - 1) : s[i][2][1] <= s[i + 1][2][1]}}

\* tts_vc/ for a timeline: any of its clips may be missing
ClipFolders(tr) ==
  UNION {[K -> ClipLengths] : K \in SUBSET {ClipKey(tr, i) : i \in DOMAIN tr}}

\* spec.md section 8, ratio scenario
ScenarioUtterance ==
  <<[start |-> 0, end |-> 1000, speaker |-> "A", text |-> <<"a">>,
     translation |-> <<"A">>]>>
ScenarioClips == [k \in {<<"A", 1>>} |-> 2000]

\* utterance_data and durations of time_stretch: one tts duration for each
\* utterance, listed speaker by speaker
LegacyUtterances ==
  {[i \in DOMAIN us |-> [Speaker |-> us[i][1], Duration |-> us[i][2]]] :
     us \in SeqsUpTo(Speakers \X {3 * k : k \in 1..MaxSlot}, MaxClips)}

RECURSIVE Pick(_, _, _)
Pick(ds, ud, n) ==
  IF ds = <<>> THEN <<>>
  ELSE IF SpeakerIndex(ud[1].Speaker) = n
       THEN <<ds[1]>> \o Pick(Tail(ds), Tail(ud), n)
       ELSE Pick(Tail(ds), Tail(ud), n)

LegacyDurations(ud) ==
  {[n \in {SpeakerIndex(ud[i].Speaker) : i \in DOMAIN ud} |-> Pick(ds, ud, n)] :
     ds \in [DOMAIN ud -> ClipLengths]}

TranscriptAtRest ==
  /\ AsrIdle
  /\ StageIdle
  /\ AlignIdle
  /\ transcript = <<>>
  /\ MergerAtRest({"merge_segments"}, {450})

InitFit ==
  /\ pc = "fit"
  /\ TranscriptAtRest
  /\ tts_vc_stretched = <<>>
  /\ f_index = 0
  /\ stretch_calls = <<>>
  /\ speaker_dict = <<>>
  /\ durations_stretched = <<>>
  /\ MixIdle
  /\ \/ /\ fitter = "time_stretch_vc"
        /\ written = {"transcript_con.json", "tts_vc"}
        /\ \/ /\ transcript_con \in DubTimelines
              /\ tts_vc \in ClipFolders(transcript_con)
           \/ /\ transcript_con = ScenarioUtterance
              /\ tts_vc = ScenarioClips
        /\ utterance_data = <<>>
        /\ durations = <<>>
     \/ /\ fitter = "time_stretch"
        /\ written = {"speaker_tts"}
        /\ transcript_con = <<>>
        /\ tts_vc = <<>>
        /\ utterance_data \in LegacyUtterances
        /\ durations \in LegacyDurations(utterance_data)

NextFit ==
  \/ FitStep
  \/ FitDone
  \/ StretchStep
  \/ StretchFinish

SpecFit == InitFit /\ [][NextFit]_vars

InitMix ==
  /\ pc = "mix"
  /\ TranscriptAtRest
  /\ fitter = "time_stretch_vc"
  /\ tts_vc_stretched = <<>>
  /\ f_index = 0
  /\ stretch_calls = <<>>
  /\ LegacyIdle
  /\ final_audio = <<>>
  /\ speaker_counts = <<>>
  /\ c_index = 0
  /\ final_mix = <<>>
  /\ \/ /\ written = {"transcript_con.json", "background.wav", "tts_vc"}
        /\ transcript_con \in DubTimelines
        /\ tts_vc \in ClipFolders(transcript_con)
        /\ background \in {3 * MaxSlot - 1, 3 * MaxSlot + 1}
     \/ /\ written = {"background.wav"}
        /\ transcript_con = <<>>
        /\ tts_vc = <<>>
        /\ background = 3 * MaxSlot

NextMix ==
  \/ MixLoad
  \/ MixStep
  \/ MixExport

SpecMix == InitMix /\ [][NextMix]_vars

MaxLines == 2     \* longest transcript given to translate

\* transcript_con.json as translate may find it: an utterance is fresh (text,
\* no translation yet), translated (by an earlier run of translate on the
\* same file) or blank (no text).
LineKinds == {"fresh", "translated", "blank"}

Line(i, spk, kind) ==
  LET iv == <<3 * (i - 1), 3 * i>>
  IN CASE kind = "fresh" -> Utterance(i, spk, iv, FALSE)
       [] kind = "translated" -> Utterance(i, spk, iv, TRUE)
       [] kind = "blank" ->
            [start |-> iv[1], end |-> iv[2], speaker |-> spk, text |-> <<>>]

TranslateInputs ==
  {[i \in DOMAIN ls |-> Line(i, ls[i][1], ls[i][2])] :
     ls \in SeqsUpTo(Speakers \X LineKinds, MaxLines)}

InitTranslate ==
  /\ pc = "translate"
  /\ TranscriptAtRest
  /\ DubIdle
  /\ \/ /\ written = {"transcript_con.json"}
        /\ transcript_con \in TranslateInputs
     \/ /\ written = {}
        /\ transcript_con = <<>>

NextTranslate ==
  \/ TranslateLoad
  \/ TranslateSkip
  \/ TranslateAttempt
  \/ TranslateSave
  \/ TtsStep
  \/ TtsDone

SpecTranslate == InitTranslate /\ [][NextTranslate]_vars

\* what re_run.py:63-65 asserts to be there
ReRunInputs ==
  [a \in {"vocals.wav", "background.wav", "transcript_con.json"} |-> "complete"]

InitPipeline ==
  /\ pc = "run"
  /\ AsrIdle
  /\ VcIdle
  /\ LangIdle
  /\ SliceIdle
  /\ AlignIdle
  /\ transcript = <<>>
  /\ MergerAtRest({"merge_segments"}, {450})
  /\ DubIdle
  /\ written = {}
  /\ transcript_con = <<>>
  /\ run_no = 1
  /\ stage = 1
  /\ executed = {}
  /\ skipped = {}
  /\ durations_bound = FALSE
  /\ history = <<>>
  /\ \/ pipeline = "test_pipeline" /\ artifacts = <<>>
     \/ pipeline = "re_run" /\ artifacts = ReRunInputs

NextPipeline ==
  \/ RunStage
  \/ RunFinish
  \/ ReEnter

SpecPipeline == InitPipeline /\ [][NextPipeline]_vars

MaxCuts == 3      \* longest timeline given to the Slicer
MaxWindow == 2    \* reference_window is drawn from 0..MaxWindow

\* the silence between an utterance and the next one, or the end of the
\* track, in ms; negative when they overlap
Gaps == {-250, 0, 250, 500, 750}

\* utterances of half a second, each starting where the one before ended
\* plus a gap
RECURSIVE StartOf(_, _)
StartOf(gaps, i) == IF i = 1 THEN 0 ELSE StartOf(gaps, i - 1) + 500 + gaps[i - 1]

\* the gap drawn with the last utterance is the one to the end of the track
TrackLength(us) ==
  IF us = <<>> THEN 500
  ELSE StartOf([j \in DOMAIN us |-> us[j][2]], Len(us)) + 500 + us[Len(us)][2]

SliceInputs ==
  {<<[i \in DOMAIN us |->
        Utterance(i, us[i][1], <<StartOf([j \in DOMAIN us |-> us[j][2]], i),
                                 StartOf([j \in DOMAIN us |-> us[j][2]], i) + 500>>,
                  TRUE)],
     TrackLength(us)>> :
     us \in SeqsUpTo(Speakers \X Gaps, MaxCuts)}

InitSlice ==
  /\ pc = "slice"
  /\ AsrIdle
  /\ VcIdle
  /\ LangIdle
  /\ RunIdle
  /\ AlignIdle
  /\ transcript = <<>>
  /\ MergerAtRest({"merge_segments"}, {450})
  /\ DubIdle
  /\ written = {"transcript_con.json", "vocals.wav"}
  /\ \E input \in SliceInputs :
       /\ transcript_con = input[1]
       /\ vocals = input[2]
  /\ reference_window \in 0..MaxWindow
  /\ utterances = <<>>
  /\ slice_counts = <<>>
  /\ s_index = 0
  /\ references = <<>>
  /\ r_done = {}

NextSlice ==
  \/ SliceStep
  \/ SliceDone
  \/ RefStep
  \/ RefDone

SpecSlice == InitSlice /\ [][NextSlice]_vars

\* the stages of re_run.py:70-78 in a row over one timeline, the clips of
\* tts_vc/ being what synthesis and voice conversion have left there
ChainFolders(tr) ==
  UNION {[K -> {0, 4}] : K \in SUBSET {ClipKey(tr, i) : i \in DOMAIN tr}}

InitChain ==
  /\ pc = "slice"
  /\ AsrIdle
  /\ VcIdle
  /\ LangIdle
  /\ RunIdle
  /\ AlignIdle
  /\ transcript = <<>>
  /\ MergerAtRest({"merge_segments"}, {450})
  /\ LegacyIdle
  /\ written = {"transcript_con.json", "vocals.wav", "background.wav", "tts_vc"}
  /\ transcript_con \in DubTimelines
  /\ vocals = 3 * MaxSlot
  /\ reference_window = 1
  /\ utterances = <<>>
  /\ slice_counts = <<>>
  /\ s_index = 0
  /\ references = <<>>
  /\ r_done = {}
  /\ fitter = "time_stretch_vc"
  /\ tts_vc \in ChainFolders(transcript_con)
  /\ tts_vc_stretched = <<>>
  /\ f_index = 0
  /\ stretch_calls = <<>>
  /\ background = 3 * MaxSlot
  /\ final_audio = <<>>
  /\ speaker_counts = <<>>
  /\ c_index = 0
  /\ final_mix = <<>>

NextChain ==
  \/ SliceStep
  \/ SliceDone
  \/ RefStep
  \/ RefDone
  \/ FitStep
  \/ FitDone
  \/ MixLoad
  \/ MixStep
  \/ MixExport

SpecChain == InitChain /\ [][NextChain]_vars

\* process_all_voice_conversions on the folders it may find.
MaxFiles == 3     \* highest clip number of a speaker's tts folder
ManyClips == 100  \* a folder whose names need a third digit

\* references/ after build_all_reference_audios: the clips 1..n of a speaker
RefFolders ==
  {[k \in UNION {{sp} \X (1..n[sp]) : sp \in Speakers} |-> <<k>>] :
     n \in [Speakers -> 0..MaxFiles]}

\* tts/: any of a speaker's clips may be missing
TtsFolders ==
  UNION {[K -> {3}] : K \in SUBSET (Speakers \X (1..MaxFiles))}

InitConvert ==
  /\ pc = "convert"
  /\ written = {"tts", "references"}
  /\ AsrIdle
  /\ RunIdle
  /\ AlignIdle
  /\ DubIdle
  /\ transcript = <<>>
  /\ MergeIdle({"merge_segments"}, {450})
  /\ translating = <<>>
  /\ tl_index = 0
  /\ attempt = 0
  /\ delay = 1
  /\ translate_log = <<>>
  /\ tts_index = 0
  /\ vocals = 0
  /\ utterances = <<>>
  /\ slice_counts = <<>>
  /\ s_index = 0
  /\ reference_window = 1
  /\ r_done = {}
  /\ converted = <<>>
  /\ vc_done = {}
  /\ trim_runs = 0
  /\ \/ /\ speaker_tts \in TtsFolders
        /\ references \in RefFolders
        /\ seed_vc \in {"ok", "flaky"}
     \/ /\ speaker_tts = [k \in {"A"} \X (1..ManyClips) |-> 3]
        /\ references = [k \in {"A"} \X (1..ManyClips) |-> <<k>>]
        /\ seed_vc = "ok"

NextConvert == VcStep \/ VcDone

SpecConvert == InitConvert /\ [][NextConvert]_vars

\* tts_vc/ as trim_vc_start may find it: up to two clips for each speaker,
\* of these lengths in ms
TrimFolders ==
  UNION {[K -> {0, 50, 150, 250}] : K \in SUBSET (Speakers \X (1..MaxClips))}

InitTrim ==
  /\ pc = "trim"
  /\ written = {"tts_vc"}
  /\ TranscriptAtRest
  /\ transcript_con = <<>>
  /\ fitter = "time_stretch_vc"
  /\ tts_vc \in TrimFolders
  /\ tts_vc_stretched = <<>>
  /\ f_index = 0
  /\ stretch_calls = <<>>
  /\ LegacyIdle
  /\ MixIdle

NextTrim == TrimVcStart

SpecTrim == InitTrim /\ [][NextTrim]_vars

\* ================================================================ claims

\* The temporal overlap of [s1, e1) and [s2, e2) as the specification
\* states it.
TemporalOverlap(s1, e1, s2, e2) ==
  LET lo == IF s1 >= s2 THEN s1 ELSE s2
      hi == IF e1 <= e2 THEN e1 ELSE e2
  IN IF hi - lo > 0 THEN hi - lo ELSE 0

\* The overlap of whisper segment i with diarization segment j.
Ov(i, j) ==
  TemporalOverlap(whisper_segments[i].start, whisper_segments[i].end,
                  diarization_segments[j].Start, diarization_segments[j].End)

HasOverlap(i) == \E j \in 1..Len(diarization_segments) : Ov(i, j) > 0

\* The first diarization segment among those of maximal overlap with i.
Winner(i) ==
  CHOOSE j \in 1..Len(diarization_segments) :
    /\ \A k \in 1..Len(diarization_segments) : Ov(i, k) <= Ov(i, j)
    /\ \A k \in 1..(j - 1) : Ov(i, k) < Ov(i, j)

\* The number of whisper segments among the first n that overlap something.
OverlappingUpTo(n) == Cardinality({k \in 1..n : HasOverlap(k)})

\* C1: every consumed text segment with positive overlap has exactly one
\* utterance in aligned, and its speaker is the label of the first
\* diarization segment of maximal overlap.
C1_SpeakerOfMaximalOverlap ==
  \A i \in 1..w_index :
    HasOverlap(i) =>
      LET k == OverlappingUpTo(i)
      IN /\ k <= Len(aligned)
         /\ aligned[k].text = whisper_segments[i].text
         /\ aligned[k].speaker = diarization_segments[Winner(i)].Speaker
         /\ Cardinality({n \in 1..Len(aligned) :
                           aligned[n].text = whisper_segments[i].text}) = 1

\* C1 witness: the stage is over and some text segment had two diarization
\* segments of different speakers tied at its maximal overlap.
C1_Witness ==
  /\ pc = "merge"
  /\ \E i \in 1..Len(whisper_segments) :
       \E j1, j2 \in 1..Len(diarization_segments) :
         /\ j1 < j2
         /\ Ov(i, j1) > 0
         /\ Ov(i, j1) = Ov(i, j2)
         /\ j1 = Winner(i)
         /\ diarization_segments[j1].Speaker # diarization_segments[j2].Speaker

\* C2: the Aligner never ends in an error; aligned holds, in input order,
\* exactly the consumed text segments with positive overlap, and discarded
\* counts the consumed segments with none.
C2_LossAccounting ==
  /\ pc \in {"align", "merge"}
  /\ Len(aligned) = OverlappingUpTo(w_index)
  /\ discarded = w_index - OverlappingUpTo(w_index)
  /\ Len(aligned) + discarded = w_index
  /\ \A i \in 1..w_index :
       HasOverlap(i) =>
         /\ aligned[OverlappingUpTo(i)].text = whisper_segments[i].text
         /\ aligned[OverlappingUpTo(i)].end = whisper_segments[i].end
  /\ pc = "merge" =>
       /\ w_index = Len(whisper_segments)
       /\ "transcript.json" \in written
       /\ transcript = aligned

\* C2 witness: the stage is over with a non-empty diarization list, one
\* segment emitted and one discarded.
C2_Witness ==
  /\ pc = "merge"
  /\ diarization_segments # <<>>
  /\ discarded >= 1
  /\ Len(aligned) >= 1

\* C2 second case: the stage is over on an empty diarization list.
C2_WitnessEmptyDiarization ==
  /\ pc = "merge"
  /\ diarization_segments = <<>>
  /\ whisper_segments # <<>>
  /\ transcript = <<>>

\* C3: in the list the Merger wrote, no two adjacent utterances have the
\* same speaker and a gap below the threshold.
C3_NoMergeableNeighbours ==
  pc = "merged" =>
    \A i \in 1..(Len(transcript_con) - 1) :
      ~(/\ transcript_con[i].speaker = transcript_con[i + 1].speaker
        /\ transcript_con[i + 1].start - transcript_con[i].end < max_gap)

\* C3 witness: a run that merged something and still wrote two adjacent
\* utterances of one speaker.
C3_Witness ==
  /\ pc = "merged"
  /\ Len(transcript_con) < Len(segments)
  /\ \E i \in 1..(Len(transcript_con) - 1) :
       transcript_con[i].speaker = transcript_con[i + 1].speaker

\* C4: the Merger run on the list it wrote, with the same threshold, ends
\* normally and returns that list unchanged.
C4_MergeIdempotent ==
  pc = "merged" =>
    MergeAll(transcript_con, max_gap, merger) =
      [status |-> "ok", out |-> transcript_con]

\* C4 witness: the first run shortened its input and wrote at least two
\* utterances.
C4_Witness ==
  /\ pc = "merged"
  /\ Len(transcript_con) < Len(segments)
  /\ Len(transcript_con) >= 2

\* C5: each step of the scan merges the next utterance into the accumulator
\* exactly when its speaker is the accumulator's and its start is less than
\* the threshold past the accumulator's current end, and otherwise flushes
\* the accumulator and restarts from the next utterance; the last
\* accumulator is flushed; the merge scenario gives one utterance with
\* threshold 0.3 s and two with 0.1 s.
C5_ScanRule ==
  /\ [][(pc = "merging" /\ pc' = "merging" /\ m_index' = m_index + 1) =>
          LET curr == segments[m_index + 1]
          IN IF curr.speaker = prev.speaker /\ curr.start - prev.end < max_gap
             THEN /\ merged_segments' = merged_segments
                  /\ prev'.start = prev.start
                  /\ prev'.speaker = prev.speaker
                  /\ prev'.end = curr.end
             ELSE /\ merged_segments' = Append(merged_segments, prev)
                  /\ prev' = curr]_vars
  /\ [][(pc = "merging" /\ pc' = "merged") =>
          /\ m_index = Len(segments)
          /\ transcript_con' = Append(merged_segments, prev)]_vars
  /\ [](pc = "merged" /\ merger = "merge_segments" /\ segments = ScenarioTimeline =>
          /\ max_gap = 300 =>
               transcript_con = <<[start |-> 0, end |-> 2000, speaker |-> "A",
                                   text |-> <<"a", " ", "b">>]>>
          /\ max_gap = 100 => transcript_con = ScenarioTimeline)

\* C5 witness: the scenario run with threshold 0.3 s is over and wrote the
\* single merged utterance.
C5_Witness ==
  /\ pc = "merged"
  /\ merger = "merge_segments"
  /\ segments = ScenarioTimeline
  /\ max_gap = 300
  /\ Len(transcript_con) = 1

\* C5 second case: three utterances of one speaker where the third is within
\* the threshold of the second's end but not of the first's.
C5_WitnessChain ==
  /\ pc = "merged"
  /\ Len(segments) = 3
  /\ Len(transcript_con) = 1
  /\ segments[3].start - segments[1].end >= max_gap

\* C6: the Merger given an empty list never ends in an unhandled indexing
\* failure.
C6_EmptyInputHandled == pc # "IndexError"

\* Comparison of two fractions.
RatioAtMost(a, b) == a[1] * b[2] <= b[1] * a[2]
RatioEqual(a, b) == a[1] * b[2] = b[1] * a[2]
InRange(r, range) == RatioAtMost(range[1], r) /\ RatioAtMost(r, range[2])

\* spec.md section 4.5: the closed range configured for voice-converted
\* clips and the one for raw synthesized speech
ConfiguredRange(f) ==
  IF f = "time_stretch_vc" THEN <<<<3, 4>>, <<5, 4>>>> ELSE <<<<1, 2>>, <<3, 2>>>>

\* C7: every ratio a Fitter passed to the time-stretch operation lies in the
\* configured closed range and equals target_ms / orig_ms whenever that is
\* already in the range; target_ms = 1000 with orig_ms = 2000 is stretched
\* with 0.75 by the Fitter of voice-converted clips.
C7_RatioClamped ==
  \A n \in 1..Len(stretch_calls) :
    LET call  == stretch_calls[n]
        raw   == <<call.target_ms, call.orig_ms>>
        range == ConfiguredRange(call.fitter)
    IN /\ InRange(call.ratio, range)
       /\ InRange(raw, range) => RatioEqual(call.ratio, raw)
       /\ (call.fitter = "time_stretch_vc" /\ raw = <<1000, 2000>>) =>
            RatioEqual(call.ratio, <<3, 4>>)

\* C8: every clip a Fitter finally wrote for an utterance lasts at most the
\* utterance's target_ms.
C8_TrimGuarantee ==
  \A n \in 1..Len(stretch_calls) :
    stretch_calls[n].out_ms <= stretch_calls[n].target_ms

\* Two utterances of a list occupy a common instant.
Overlapping(u, v) == Max(u.start, v.start) < Min(u.end, v.end)

\* C9: in the list the Merger wrote from the Aligner's output, no two
\* utterances have overlapping [start, end) intervals.
C9_NoOverlappingUtterances ==
  pc = "merged" =>
    \A i, j \in 1..Len(transcript_con) :
      i < j => ~Overlapping(transcript_con[i], transcript_con[j])

\* The clip of utterance i is on disk.
HasClip(i) == ClipKey(transcript_con, i) \in DOMAIN tts_vc

\* The part of its slot that the clip of utterance i can fill: from the
\* start offset for the clip's length, at most the slot length.
FilledUntil(i) ==
  LET u    == transcript_con[i]
      slot == u.end - u.start
      clip == tts_vc[ClipKey(transcript_con, i)]
  IN u.start + (IF clip <= slot THEN clip ELSE slot)

InSlot(t, i) == transcript_con[i].start <= t /\ t < transcript_con[i].end

SamplesOf(i, t) ==
  IF HasClip(i) /\ transcript_con[i].start <= t /\ t < FilledUntil(i)
  THEN {<<ClipKey(transcript_con, i), t - transcript_con[i].start>>}
  ELSE {}

CallsFor(i) == SelectSeq(translate_log, LAMBDA c : c.utt = i)

RECURSIVE Pow2(_)
Pow2(n) == IF n = 0 THEN 1 ELSE 2 * Pow2(n - 1)

\* translate has written the transcript back
Saved == pc \in {"tts", "synthesised", "KeyError"}

HasText(tr, i) == Get(tr[i], "text", <<>>) # <<>>

RateLimited(c) == c.outcome = "TooManyRequestsException"

\* C12: an utterance is attempted at most 5 times; the n-th rate-limited
\* attempt of an utterance is followed by a wait of 2^(n-1) seconds, counted
\* anew for every utterance; an utterance whose 5 attempts were all
\* rate-limited is written with the translation "" and every utterance with
\* text has been attempted when the transcript is written.
C12_RetryBackoff ==
  /\ \A i \in 1..Len(translating) :
       LET calls == CallsFor(i)
       IN /\ Len(calls) <= max_retries
          /\ \A n \in DOMAIN calls :
               /\ calls[n].attempt = n - 1
               /\ RateLimited(calls[n]) => calls[n].slept = Pow2(n - 1)
               /\ n < Len(calls) => RateLimited(calls[n])
  /\ Saved =>
       \A i \in 1..Len(transcript_con) :
         /\ HasText(transcript_con, i) => Len(CallsFor(i)) >= 1
         /\ (Len(CallsFor(i)) = max_retries /\ RateLimited(CallsFor(i)[max_retries])) =>
              /\ HasKey(transcript_con[i], "translation")
              /\ transcript_con[i].translation = <<>>

\* C12 witness: the first of two utterances was rate-limited five times, with
\* waits of 1, 2, 4, 8 and 16 seconds, and the second was translated at its
\* second attempt after a wait of 1 second.
C12_Witness ==
  /\ Saved
  /\ Len(transcript_con) = 2
  /\ Len(CallsFor(1)) = max_retries
  /\ \A n \in 1..max_retries : CallsFor(1)[n].slept = Pow2(n - 1)
  /\ CallsFor(1)[max_retries].slept = 16
  /\ transcript_con[1].translation = <<>>
  /\ Len(CallsFor(2)) = 2
  /\ CallsFor(2)[1].slept = 1
  /\ CallsFor(2)[2].outcome = "ok"
  /\ transcript_con[2].translation = <<"B">>

\* the last call of the translator for utterance i was a non-rate-limit error
ApiErrorOn(i) ==
  /\ CallsFor(i) # <<>>
  /\ CallsFor(i)[Len(CallsFor(i))].outcome = "DeepLException"

\* C13: an utterance whose attempt ended in a non-rate-limit API error is not
\* attempted again, its translation field is the empty text in the written
\* transcript, and the utterances after it are still attempted.
C13_ApiErrorLeavesFieldEmpty ==
  /\ \A i \in 1..Len(translating) :
       \A n \in DOMAIN CallsFor(i) :
         CallsFor(i)[n].outcome = "DeepLException" => n = Len(CallsFor(i))
  /\ Saved =>
       \A i \in 1..Len(transcript_con) :
         ApiErrorOn(i) =>
           /\ HasKey(transcript_con[i], "translation")
           /\ transcript_con[i].translation = <<>>
           /\ \A j \in (i + 1)..Len(transcript_con) :
                HasText(transcript_con, j) => Len(CallsFor(j)) >= 1

\* C14: once translate has written the transcript every utterance carries a
\* translation field, and tts never stops at a missing one.
C14_EveryUtteranceTranslated ==
  /\ pc # "KeyError"
  /\ Saved => \A i \in 1..Len(transcript_con) :
                HasKey(transcript_con[i], "translation")

\* the run before this one
Previous == history[Len(history)]

FinalArtifact == Stages(pipeline)[Len(Stages(pipeline))].output

\* C15: a run started over the artifacts of a completed run finds the output
\* of every stage in place and calls no stage.
C15_CompletedRunRecomputesNothing ==
  (history # <<>> /\ Previous.outcome = "finished") => executed = {}

\* C16: a stage is passed over only when its output is complete, and the
\* run that follows a run aborted in stage a, once it has returned, has
\* passed over exactly the stages before a, called a and every later
\* stage, and left the final artifact complete.
C16_ResumeAfterAbort ==
  /\ \A s \in skipped : artifacts[Stages(pipeline)[s].output] = "complete"
  /\ (pc = "finished" /\ Len(history) = 1 /\ Previous.outcome = "aborted") =>
       /\ skipped = 1..(Previous.stage - 1)
       /\ executed = Previous.stage..Len(Stages(pipeline))
       /\ FinalArtifact \in DOMAIN artifacts
       /\ artifacts[FinalArtifact] = "complete"

\* the silence after utterance i: up to the start of the next utterance, or
\* up to the end of the track after the last one
GapAfter(i) ==
  IF i < Len(transcript_con)
  THEN transcript_con[i + 1].start - transcript_con[i].end
  ELSE vocals - transcript_con[i].end

\* C17: the clip cut for an utterance starts at the utterance's start and
\* ends at its end plus min(500 ms, gap); it ends no later than the start
\* of the next utterance, no later than the end of the track, and no more
\* than 500 ms after the utterance's end.
C17_ClipEndPadded ==
  \A k \in DOMAIN utterances :
    LET clip == utterances[k]
        i    == clip.utt
        end  == transcript_con[i].end
    IN /\ clip.from = transcript_con[i].start
       /\ clip.to = end + Min(500, GapAfter(i))
       /\ i < Len(transcript_con) => clip.to <= transcript_con[i + 1].start
       /\ clip.to <= vocals
       /\ clip.to <= end + 500

\* C17 witness: three utterances are cut; 750 ms of silence follow the
\* first, whose clip is extended by 500 ms, 250 ms follow the second, whose
\* clip ends where the third starts, and the track ends 250 ms after the
\* third, where its clip ends.
C17_Witness ==
  /\ pc = "references"
  /\ Len(transcript_con) = 3
  /\ GapAfter(1) = 750
  /\ GapAfter(2) = 250
  /\ GapAfter(3) = 250
  /\ \E k1, k2, k3 \in DOMAIN utterances :
       /\ utterances[k1].utt = 1
       /\ utterances[k1].to = transcript_con[1].end + 500
       /\ utterances[k2].utt = 2
       /\ utterances[k2].to = transcript_con[3].start
       /\ utterances[k3].utt = 3
       /\ utterances[k3].to = vocals

\* the number of utterances of a speaker in the timeline
UtterancesOf(spk) ==
  Cardinality({i \in 1..Len(transcript_con) : transcript_con[i].speaker = spk})

\* the clips lo..hi of a speaker, in increasing index order
ClipRun(spk, lo, hi) == [j \in 1..(hi - lo + 1) |-> <<spk, lo + j - 1>>]

\* C19: a reference clip, once written, is the concatenation in increasing
\* index order of the same speaker's clips max(1, k - w) .. min(N, k + w);
\* when the stage has ended every utterance clip has its reference, the
\* reference of an only clip or under window 0 being the clip itself, and
\* the stage ends without an error.
C19_ReferenceWindow ==
  /\ pc \in {"slice", "references", "fit"}
  /\ pc \in {"references", "fit"} =>
       \A k \in DOMAIN references :
         LET N == UtterancesOf(k[1])
         IN /\ k \in DOMAIN utterances
            /\ references[k] = ClipRun(k[1], Max(1, k[2] - reference_window),
                                       Min(N, k[2] + reference_window))
            /\ (N = 1 \/ reference_window = 0) => references[k] = <<k>>
  /\ pc = "fit" => DOMAIN references = DOMAIN utterances

\* C19 witness: with window 1 and the timeline A, B, A the references are
\* A1+A2 for A1, A1+A2 for A2 and B1 alone for B1.
C19_Witness ==
  /\ pc = "fit"
  /\ reference_window = 1
  /\ Len(transcript_con) = 3
  /\ transcript_con[1].speaker = "A"
  /\ transcript_con[2].speaker = "B"
  /\ transcript_con[3].speaker = "A"
  /\ references[<<"A", 1>>] = <<<<"A", 1>>, <<"A", 2>>>>
  /\ references[<<"A", 2>>] = <<<<"A", 1>>, <<"A", 2>>>>
  /\ references[<<"B", 1>>] = <<<<"B", 1>>>>

\* the 1-based rank of utterance i among the utterances of its speaker, in
\* timeline order
Rank(i) ==
  Cardinality({j \in 1..i : transcript_con[j].speaker = transcript_con[i].speaker})

RankKey(i) == <<transcript_con[i].speaker, Rank(i)>>

\* C18: the Slicer writes the clip of utterance i under (speaker, rank of i)
\* and, once done, has written exactly the indices 1..Nk for a speaker
\* with Nk utterances; the Fitter reads and writes the clip of the
\* utterance it is at under (speaker, rank); the Compositor looks for the
\* clip of the utterance it is at under (speaker, rank); all of it whichever
\* clips of tts_vc are missing.
C18_SameKeyInEveryStage ==
  /\ [](\A k \in DOMAIN utterances : k = RankKey(utterances[k].utt))
  /\ [](pc # "slice" =>
          \A spk \in Speakers :
            {k[2] : k \in {x \in DOMAIN utterances : x[1] = spk}} = 1..UtterancesOf(spk))
  /\ [][(pc = "fit" /\ f_index' = f_index + 1) =>
          LET key == RankKey(VisitOrder(transcript_con)[f_index + 1])
          IN /\ DOMAIN tts_vc_stretched' \subseteq DOMAIN tts_vc_stretched \cup {key}
             /\ stretch_calls' # stretch_calls =>
                  /\ stretch_calls'[Len(stretch_calls')].src = key
                  /\ key \in DOMAIN tts_vc
                  /\ key \in DOMAIN tts_vc_stretched']_vars
  /\ [][(pc = "mixing" /\ c_index' = c_index + 1) =>
          LET i == c_index + 1
          IN /\ speaker_counts'[transcript_con[i].speaker] = Rank(i)
             /\ \A t \in DOMAIN final_audio :
                  final_audio'[t] \ final_audio[t] \subseteq
                    {<<RankKey(i), t - transcript_con[i].start>>}]_vars

\* C18 witness: both utterances of the timeline are speaker A's, the clip of
\* the first is missing from tts_vc, and the second has been cut, fitted
\* and mixed in under (A, 2).
C18_Witness ==
  /\ pc = "mixed"
  /\ Len(transcript_con) = 2
  /\ transcript_con[1].speaker = "A"
  /\ transcript_con[2].speaker = "A"
  /\ <<"A", 1>> \notin DOMAIN tts_vc
  /\ <<"A", 2>> \in DOMAIN tts_vc
  /\ utterances[<<"A", 2>>].utt = 2
  /\ \E n \in DOMAIN stretch_calls : stretch_calls[n].src = <<"A", 2>>
  /\ <<"A", 2>> \in DOMAIN tts_vc_stretched
  /\ \E t \in DOMAIN final_mix : \E smp \in final_mix[t] : smp[1] = <<"A", 2>>

\* the Fitter has gone through the whole timeline
FitterDone == pc \in {"mix", "stretched"}

\* C20: the Fitter never stops at a missing or zero-length source clip: no
\* ratio is computed from a zero length, no stretched clip is written for a
\* clip that is missing or empty, and the Fitter ends having gone through
\* every utterance, with one stretch for each utterance whose clip is there.
C20_DegenerateClipSkipped ==
  /\ pc # "ZeroDivisionError"
  /\ \A n \in DOMAIN stretch_calls : stretch_calls[n].orig_ms > 0
  /\ \A k \in DOMAIN tts_vc_stretched : k \in DOMAIN tts_vc /\ tts_vc[k] > 0
  /\ (FitterDone /\ fitter = "time_stretch_vc") =>
       /\ f_index = Len(transcript_con)
       /\ \A i \in 1..Len(transcript_con) :
            (HasClip(i) /\ tts_vc[RankKey(i)] > 0) =>
              \E n \in DOMAIN stretch_calls : stretch_calls[n].src = RankKey(i)
  /\ (FitterDone /\ fitter = "time_stretch") => f_index = Len(utterance_data)

\* C21: the final mix is written by one step only, the one that ends the
\* stage, taken when the overlay step of every utterance is behind; nothing
\* is written after it; and when the transcript file is absent the stage
\* ends in FileNotFoundError with no overlay done and no final mix written.
C21_MixWrittenOnceAtEnd ==
  /\ [][(final_mix' # final_mix \/ "final_mix.wav" \in written' \ written) =>
          /\ pc = "mixing"
          /\ c_index = Len(transcript_con)
          /\ pc' = "mixed"
          /\ final_mix' = final_audio]_vars
  /\ [][pc = "mixed" => (final_mix' = final_mix /\ written' = written)]_vars
  /\ [](pc = "mixed" => "final_mix.wav" \in written)
  /\ []("transcript_con.json" \notin written =>
          /\ pc \in {"mix", "FileNotFoundError"}
          /\ c_index = 0
          /\ final_mix = <<>>
          /\ "final_mix.wav" \notin written)

\* C21 witness: the mix of a timeline of two utterances has been written,
\* both overlay steps behind.
C21_Witness ==
  /\ pc = "mixed"
  /\ Len(transcript_con) = 2
  /\ c_index = 2
  /\ HasClip(1)
  /\ HasClip(2)
  /\ "final_mix.wav" \in written
  /\ final_mix = final_audio

\* the milliseconds of the final mix in which the clip of utterance i is heard
HeardAt(i) ==
  {t \in DOMAIN final_mix : \E smp \in final_mix[t] : smp[1] = RankKey(i)}

\* C22: for every utterance the Fitter wrote a stretched clip for, what is
\* heard in the final mix is that stretched clip, cut to the slot: it is
\* heard from the utterance's start for as long as the stretched clip, or
\* the slot, lasts.
C22_StretchedClipReachesMix ==
  pc = "mixed" =>
    \A i \in 1..Len(transcript_con) :
      RankKey(i) \in DOMAIN tts_vc_stretched =>
        HeardAt(i) =
          {t \in DOMAIN final_mix :
             /\ transcript_con[i].start <= t
             /\ t < transcript_con[i].start +
                      Min(tts_vc_stretched[RankKey(i)], TargetMs(transcript_con[i]))}

\* a step of the Merger's loop that merged the current utterance into the
\* accumulator
MergedOne ==
  /\ pc = "merging"
  /\ pc' = "merging"
  /\ m_index' = m_index + 1
  /\ merged_segments' = merged_segments

\* C23: whenever the Merger merges an utterance into the accumulator, the
\* accumulator's end becomes the later of the two ends, so it is never
\* earlier than the end the accumulator had nor than the end of the
\* utterance merged in.
C23_MergedEndIsLaterEnd ==
  [][MergedOne =>
       prev'.end = Max(prev.end, segments[m_index + 1].end)]_vars

\* C24: whenever the Merger merges an utterance into the accumulator and
\* both carry a translation, the accumulator's translation becomes the two
\* translations joined by a single space, in timeline order, just as its
\* text becomes the two texts joined; the translation merged in is not lost.
C24_MergedTranslationIsJoined ==
  [][(/\ MergedOne
      /\ HasKey(prev, "translation")
      /\ HasKey(segments[m_index + 1], "translation")) =>
       /\ prev'.text = JoinText(prev.text, segments[m_index + 1].text)
       /\ prev'.translation =
            JoinText(prev.translation, segments[m_index + 1].translation)]_vars

\* C25: every utterance of the Aligner's output other than the first starts
\* exactly at the start of its text segment; the first starts at the start of
\* its matched diarization segment, and that start is never later than the
\* start of its text segment.
C25_FirstStartOnlyWidened ==
  \A i \in 1..w_index :
    HasOverlap(i) =>
      LET k == OverlappingUpTo(i)
      IN IF k = 1
         THEN /\ aligned[k].start = diarization_segments[Winner(i)].Start
              /\ aligned[k].start <= whisper_segments[i].start
         ELSE aligned[k].start = whisper_segments[i].start

\* the starts of a list are non-decreasing along it
StartOrdered(us) == \A i \in 1..(Len(us) - 1) : us[i].start <= us[i + 1].start

\* C26: for text segments given in start order, the starts are non-decreasing
\* along the Aligner's output, and again along the list the Merger writes
\* from that output.
C26_StartOrderKept ==
  StartOrdered(whisper_segments) =>
    /\ StartOrdered(aligned)
    /\ pc \in {"merge", "merging"} => StartOrdered(transcript)
    /\ pc = "merged" => StartOrdered(transcript_con)

\* every utterance of a list has 0 <= start < end
WellFormed(us) == \A i \in 1..Len(us) : 0 <= us[i].start /\ us[i].start < us[i].end

\* C27: for text and diarization segments that each have 0 <= start < end,
\* every utterance of the Aligner's output and every utterance of the
\* Merger's output of that timeline has start >= 0 and end > start.
C27_UtterancesWellFormed ==
  (/\ WellFormed(whisper_segments)
   /\ \A j \in 1..Len(diarization_segments) :
        /\ 0 <= diarization_segments[j].Start
        /\ diarization_segments[j].Start < diarization_segments[j].End) =>
    /\ WellFormed(aligned)
    /\ pc \in {"merging", "merged"} => WellFormed(merged_segments)
    /\ pc = "merged" => WellFormed(transcript_con)

\* C30: after extend_short_segments every segment has start >= 0 and a
\* duration of at least min_duration, and a segment whose duration was
\* already at least min_duration is unchanged (ExtendShort counts half
\* milliseconds).
C30_ExtendedToMinDuration ==
  pc # "transcribe" =>
    \A i \in 1..Len(result_segments) :
      LET seg == result_segments[i]
          ext == ExtendShort(seg)
      IN /\ ext.start >= 0
         /\ ext.end - ext.start >= 2 * MinDuration
         /\ seg.end - seg.start >= MinDuration =>
              (ext.start = 2 * seg.start /\ ext.end = 2 * seg.end)

\* C29: every voice-converted clip written under an index k for which the
\* synthesized clip k and the reference clip k exist is the conversion of
\* synthesized clip k with reference clip k, whatever the number of clips of
\* the speaker and whichever synthesized clips are absent.
C29_ConvertedByIndex ==
  \A k \in DOMAIN converted :
    (k \in DOMAIN speaker_tts /\ k \in DOMAIN references) =>
      converted[k] = [src |-> k, ref |-> k]

\* C28: no operation rewrites an existing clip with different content: every
\* clip of tts_vc/ that exists before a step exists after it with the
\* content it had, so an operation applied a second time changes no clip.
C28_ClipsNeverRewritten ==
  [][\A k \in DOMAIN tts_vc :
       k \in DOMAIN tts_vc' /\ tts_vc'[k] = tts_vc[k]]_vars

====
